---- MODULE Spec2Model ----
(***************************************************************************)
(* Connection lifecycle manager of package db (src/db.go): the singleton   *)
(* handle `instance`, the sync.Once `once`, the sync.RWMutex `mu`, and the *)
(* operations Init, Get, Close, Stats, HealthCheck and WithTransaction,    *)
(* run by concurrent goroutines one statement group at a time, and the     *)
(* background loop monitorConnection.                                      *)
(***************************************************************************)
EXTENDS Integers, Sequences, FiniteSets, TLC

\* ------------------------------------------------------------------ bounds
NumProcs == 2
MaxCalls == 3
MaxTicks == 2

\* The goroutines that call the package, and the one running monitorConnection.
Procs == 1..NumProcs
Mon == NumProcs + 1
Goroutines == Procs \cup {Mon}

\* ------------------------------------------------------------ error values
\* An error value: `text` is what Error() prints, piece by piece; `chain` is
\* what errors.Is walks (the value itself, then each Unwrap()).
NilErr == [text |-> <<>>, chain |-> <<>>]

ErrorsNew(name) == [text |-> <<name>>, chain |-> <<name>>]

ErrDBNotInitialized == ErrorsNew("ErrDBNotInitialized")
ErrDBConnectionLost == ErrorsNew("ErrDBConnectionLost")

\* fmt.Errorf("<msg>: %w", err): a new error that unwraps to err.
ErrorfW(msg, err) ==
    [text |-> <<msg>> \o err.text, chain |-> <<"*fmt.wrapError">> \o err.chain]

\* fmt.Errorf("%w: %v", sentinel, err): unwraps to sentinel; err is only text.
ErrorfWV(sentinel, err) ==
    [text |-> sentinel.text \o err.text,
     chain |-> <<"*fmt.wrapError">> \o sentinel.chain]

\* fmt.Errorf("<m1>: %v, <m2>: %w", err, rbErr): unwraps to rbErr only.
ErrorfVW(m1, err, m2, rbErr) ==
    [text |-> <<m1>> \o err.text \o <<m2>> \o rbErr.text,
     chain |-> <<"*fmt.wrapError">> \o rbErr.chain]

\* errors.Is(err, target) for a comparable sentinel target.
ErrorsIs(err, target) ==
    \E i \in 1..Len(err.chain) : err.chain[i] = target.chain[1]

\* Errors the driver and the contexts can report.
OpenErrs  == {ErrorsNew("pq: invalid connection string")}
PingErrs  == {ErrorsNew("pq: connection refused"),
              ErrorsNew("context.DeadlineExceeded")}
CloseErrs == {ErrorsNew("pq: close failed")}
TxErrs    == {ErrorsNew("sql: driver tx error")}
FnErrs    == {ErrorsNew("fn: business error")}
PanicVals == {"panic: index out of range", "panic: nil map"}
NoPanic   == "no panic"
ErrDBClosed == ErrorsNew("sql: database is closed")
ErrCtxCanceled == ErrorsNew("context.Canceled")

\* ------------------------------------------------------------------ config
\* *config.Config as far as Init reads it.
Cfgs == { [DBMaxOpenConns |-> 10, DBMaxIdleConns |-> 5,
           DBConnMaxLifetime |-> 30, DBConnMaxIdleTime |-> 10],
          [DBMaxOpenConns |-> 20, DBMaxIdleConns |-> 5,
           DBConnMaxLifetime |-> 60, DBConnMaxIdleTime |-> 10] }

\* No cfg: the goroutine is not inside Init.
NoCfg == [DBMaxOpenConns |-> 0, DBMaxIdleConns |-> 0,
          DBConnMaxLifetime |-> 0, DBConnMaxIdleTime |-> 0]

Nil == 0

VARIABLES
    instance,   \* var instance *sql.DB : Nil or an index into conns
    once,       \* var once sync.Once   : "fresh", "running", "done"
    mu,         \* var mu sync.RWMutex  : [writer, readers]
    conns,      \* every *sql.DB that sql.Open has returned
    openCalls,  \* number of sql.Open calls made
    pc,         \* per goroutine: the statement it is about to execute
    op,         \* per goroutine: the function it is (or was last) running
    cfg,        \* per goroutine: Init's cfg argument
    initErr,    \* per goroutine: Init's local initErr
    conn,       \* per goroutine: the closure's local conn
    db,         \* per goroutine: the handle Get() gave to the enclosing call
    tx,         \* per goroutine: the transaction of WithTransaction
    fnErr,      \* per goroutine: what fn(tx) returned to WithTransaction
    panicking,  \* per goroutine: the value of the panic unwinding it
    ret,        \* per goroutine: what the last call returned
    entry,      \* per goroutine: whether the call was made after the manager
                \* had ended, "Closed" or "Failed", else "Live" (history,
                \* read by no operation)
    calls,      \* number of calls made so far by Procs, per function
    mon,        \* monitorConnection: "off", "select", "check", "exited"
    ctxDone,    \* the ctx given to monitorConnection has been cancelled
    tickC,      \* ticker.C holds a tick (a channel of capacity one)
    ticks,      \* number of ticks delivered into ticker.C while a probe
                \* could still follow
    simpleDb,   \* simplified manager: var db *sql.DB
    simpleErr   \* simplified manager, per goroutine: Init's local err

monVars == <<mon, ctxDone, tickC, ticks>>
simpleVars == <<simpleDb, simpleErr>>

vars == <<instance, once, mu, conns, openCalls, pc, op, cfg, initErr, conn,
          db, tx, fnErr, panicking, ret, entry, calls, mon, ctxDone, tickC,
          ticks, simpleDb, simpleErr>>

Ops == {"Init", "Get", "Close", "Stats", "HealthCheck", "WithTransaction"}

NoStats == <<>>
NoRet == [db |-> Nil, stats |-> NoStats, err |-> NilErr, panic |-> FALSE,
          pval |-> NoPanic]
NoTx  == [state |-> "none", fnCalls |-> 0, commits |-> 0, rollbacks |-> 0]

\* A *sql.DB as sql.Open returns it: no limits set, never pinged, open.
NewConn == [maxOpen |-> 0, maxIdle |-> 0, maxLifetime |-> 0, maxIdleTime |-> 0,
            configs |-> 0, initPings |-> 0, pingOk |-> FALSE, probes |-> 0,
            closes |-> 0, closeOk |-> FALSE]

TotalCalls == calls["Init"] + calls["Get"] + calls["Close"] + calls["Stats"]
              + calls["HealthCheck"] + calls["WithTransaction"]

Init ==
    /\ instance = Nil
    /\ once = "fresh"
    /\ mu = [writer |-> Nil, readers |-> {}]
    /\ conns = <<>>
    /\ openCalls = 0
    /\ pc = [p \in Goroutines |-> "idle"]
    /\ op = [p \in Goroutines |-> "none"]
    /\ cfg = [p \in Goroutines |-> NoCfg]
    /\ initErr = [p \in Goroutines |-> NilErr]
    /\ conn = [p \in Goroutines |-> Nil]
    /\ db = [p \in Goroutines |-> Nil]
    /\ tx = [p \in Goroutines |-> NoTx]
    /\ fnErr = [p \in Goroutines |-> NilErr]
    /\ panicking = [p \in Goroutines |-> NoPanic]
    /\ ret = [p \in Goroutines |-> NoRet]
    /\ entry = [p \in Goroutines |-> "Live"]
    /\ calls = [o \in Ops |-> 0]
    /\ mon = "off"
    /\ ctxDone = FALSE
    /\ tickC = FALSE
    /\ ticks = 0
    /\ simpleDb = Nil
    /\ simpleErr = [p \in Goroutines |-> NilErr]

\* --------------------------------------------------------------- sync.RWMutex
MuLock(p)    == mu.writer = Nil /\ mu.readers = {} /\ mu' = [mu EXCEPT !.writer = p]
MuUnlock(p)  == mu.writer = p /\ mu' = [mu EXCEPT !.writer = Nil]
MuRLock(p)   == mu.writer = Nil /\ mu' = [mu EXCEPT !.readers = @ \cup {p}]
MuRUnlock(p) == p \in mu.readers /\ mu' = [mu EXCEPT !.readers = @ \ {p}]

\* ------------------------------------------------------------------ sync.Once
\* once.Do(f): "run" f (first caller), "wait" while another caller runs it,
\* "skip" once it has returned.
OnceDo_NoWait(o) == IF o = "done" THEN "skip" ELSE "run"

OnceDo_Rerun(o) == IF o = "running" THEN "wait" ELSE "run"

OnceDo(o) ==
    CASE o = "fresh"   -> "run"
      [] o = "running" -> "wait"
      [] OTHER         -> "skip"

\* ------------------------------------------------------------ lifecycle state
\* A handle that was published (its ping passed) and then closed successfully.
ClosedOk == \E h \in 1..Len(conns) : conns[h].pingOk /\ conns[h].closeOk

\* The manager's state as the package variables encode it. "Failed" is the
\* state after an attempt that published nothing: once is spent, instance nil.
Lifecycle ==
    CASE ClosedOk         -> "Closed"
      [] instance # Nil   -> "Ready"
      [] once = "running" -> "Initializing"
      [] once = "done"    -> "Failed"
      [] OTHER            -> "Uninitialized"

EntryState == IF Lifecycle \in {"Closed", "Failed"} THEN Lifecycle ELSE "Live"

\* ----------------------------------------------------------------- call entry
\* The locals of a call exist from its entry to its return.
NoLocals(p) ==
    /\ initErr' = [initErr EXCEPT ![p] = NilErr]
    /\ conn' = [conn EXCEPT ![p] = Nil]
    /\ db' = [db EXCEPT ![p] = Nil]
    /\ fnErr' = [fnErr EXCEPT ![p] = NilErr]
    /\ panicking' = [panicking EXCEPT ![p] = NoPanic]

Enter(p, o, first) ==
    /\ pc[p] = "idle"
    /\ TotalCalls < MaxCalls
    /\ pc' = [pc EXCEPT ![p] = first]
    /\ op' = [op EXCEPT ![p] = o]
    /\ calls' = [calls EXCEPT ![o] = @ + 1]
    /\ ret' = [ret EXCEPT ![p] = NoRet]
    /\ entry' = [entry EXCEPT ![p] = EntryState]
    /\ tx' = [tx EXCEPT ![p] = NoTx]
    /\ UNCHANGED <<initErr, conn, db, fnErr, panicking>>

\* ----------------------------------------------------------------------- Init
\* func Init(ctx, cfg): var initErr error
InitCall(p) ==
    /\ \E c \in Cfgs : cfg' = [cfg EXCEPT ![p] = c]
    /\ Enter(p, "Init", "init_once")
    /\ UNCHANGED <<instance, once, mu, conns, openCalls, monVars, simpleVars>>

\* once.Do(func() {...})
InitOnce(p) ==
    /\ pc[p] = "init_once"
    /\ OnceDo(once) # "wait"
    /\ IF OnceDo(once) = "run"
         THEN /\ once' = "running"
              /\ pc' = [pc EXCEPT ![p] = "init_lock"]
         ELSE /\ once' = once
              /\ pc' = [pc EXCEPT ![p] = "init_ret"]
    /\ UNCHANGED <<instance, mu, conns, openCalls, op, cfg, initErr, conn,
                   db, tx, fnErr, panicking, ret, entry, calls, monVars, simpleVars>>

\* mu.Lock(); defer mu.Unlock()
InitLock(p) ==
    /\ pc[p] = "init_lock"
    /\ MuLock(p)
    /\ pc' = [pc EXCEPT ![p] = "init_open"]
    /\ UNCHANGED <<instance, once, conns, openCalls, op, cfg, initErr, conn,
                   db, tx, fnErr, panicking, ret, entry, calls, monVars, simpleVars>>

\* conn, err := sql.Open("postgres", cfg.DBUrl); if err != nil {...; return}
InitOpen(p) ==
    /\ pc[p] = "init_open"
    /\ openCalls' = openCalls + 1
    /\ \/ /\ conns' = Append(conns, NewConn)
          /\ conn' = [conn EXCEPT ![p] = Len(conns) + 1]
          /\ pc' = [pc EXCEPT ![p] = "init_config"]
          /\ UNCHANGED initErr
       \/ \E e \in OpenErrs :
          /\ initErr' = [initErr EXCEPT
                           ![p] = ErrorfW("failed to open DB connection", e)]
          /\ pc' = [pc EXCEPT ![p] = "init_unlock"]
          /\ UNCHANGED <<conns, conn>>
    /\ UNCHANGED <<instance, once, mu, op, cfg, db, tx, fnErr, panicking, ret, entry, calls, monVars, simpleVars>>

\* conn.SetMaxOpenConns / SetMaxIdleConns / SetConnMaxLifetime / SetConnMaxIdleTime
PoolConfigured(c, k) ==
    [c EXCEPT !.maxOpen = k.DBMaxOpenConns,
              !.maxIdle = k.DBMaxIdleConns,
              !.maxLifetime = k.DBConnMaxLifetime,
              !.maxIdleTime = k.DBConnMaxIdleTime,
              !.configs = @ + 1]

InitConfig(p) ==
    /\ pc[p] = "init_config"
    /\ conns' = [conns EXCEPT ![conn[p]] = PoolConfigured(@, cfg[p])]
    /\ pc' = [pc EXCEPT ![p] = "init_ping"]
    /\ UNCHANGED <<instance, once, mu, openCalls, op, cfg, initErr, conn,
                   db, tx, fnErr, panicking, ret, entry, calls, monVars, simpleVars>>

\* if err = conn.PingContext(pingCtx); err != nil { _ = conn.Close();
\*     initErr = fmt.Errorf("failed to ping DB: %w", err); return }
\* instance = conn
PingFailed_NoClose(c) == [c EXCEPT !.initPings = @ + 1]

PingFailed(c) == [c EXCEPT !.initPings = @ + 1, !.closes = @ + 1]
PingPassed(c) == [c EXCEPT !.initPings = @ + 1, !.pingOk = TRUE]

\* instance after the ping: "instance = conn" is reached only when it passed
Publish_Unverified(inst, c, ok) == c

Publish(inst, c, ok) == IF ok THEN c ELSE inst

InitPing(p) ==
    /\ pc[p] = "init_ping"
    /\ \/ /\ conns' = [conns EXCEPT ![conn[p]] = PingPassed(@)]
          /\ instance' = Publish(instance, conn[p], TRUE)
          /\ UNCHANGED initErr
       \/ \E e \in PingErrs :
          /\ conns' = [conns EXCEPT ![conn[p]] = PingFailed(@)]
          /\ initErr' = [initErr EXCEPT
                           ![p] = ErrorfW("failed to ping DB", e)]
          /\ instance' = Publish(instance, conn[p], FALSE)
    /\ pc' = [pc EXCEPT ![p] = "init_unlock"]
    /\ UNCHANGED <<once, mu, openCalls, op, cfg, conn, db, tx, fnErr, panicking, ret, entry, calls, monVars, simpleVars>>

\* the closure returns: deferred cancel() and mu.Unlock()
InitUnlock(p) ==
    /\ pc[p] = "init_unlock"
    /\ MuUnlock(p)
    /\ pc' = [pc EXCEPT ![p] = "init_oncedone"]
    /\ UNCHANGED <<instance, once, conns, openCalls, op, cfg, initErr, conn,
                   db, tx, fnErr, panicking, ret, entry, calls, monVars, simpleVars>>

\* once.Do returns: the Once is done whatever the closure did
InitOnceDone(p) ==
    /\ pc[p] = "init_oncedone"
    /\ once' = "done"
    /\ pc' = [pc EXCEPT ![p] = "init_ret"]
    /\ UNCHANGED <<instance, mu, conns, openCalls, op, cfg, initErr, conn,
                   db, tx, fnErr, panicking, ret, entry, calls, monVars, simpleVars>>

\* return instance, initErr
InitResult_DropHandle(inst, err) == [NoRet EXCEPT !.err = err]

InitResult(inst, err) == [NoRet EXCEPT !.db = inst, !.err = err]

InitReturn(p) ==
    /\ pc[p] = "init_ret"
    /\ ret' = [ret EXCEPT ![p] = InitResult(instance, initErr[p])]
    /\ pc' = [pc EXCEPT ![p] = "idle"]
    /\ NoLocals(p)
    /\ cfg' = [cfg EXCEPT ![p] = NoCfg]
    /\ UNCHANGED <<instance, once, mu, conns, openCalls, op, tx, entry, calls, monVars, simpleVars>>

\* ------------------------------------------------------------------------ Get
\* if instance == nil { return nil, ErrDBNotInitialized }; return instance, nil
GetResult_NoNilCheck(inst) == [NoRet EXCEPT !.db = inst]

GetResult(inst) ==
    IF inst = Nil THEN [NoRet EXCEPT !.err = ErrDBNotInitialized]
                  ELSE [NoRet EXCEPT !.db = inst]

\* Get, Stats, HealthCheck and WithTransaction all start with Get()
GetCall(p) ==
    /\ \E o \in {"Get", "Stats", "HealthCheck", "WithTransaction"} :
          Enter(p, o, "get_rlock")
    /\ UNCHANGED <<instance, once, mu, conns, openCalls, cfg, monVars, simpleVars>>

\* mu.RLock(); defer mu.RUnlock()
GetRLock(p) ==
    /\ pc[p] = "get_rlock"
    /\ MuRLock(p)
    /\ pc' = [pc EXCEPT ![p] = "get_read"]
    /\ UNCHANGED <<instance, once, conns, openCalls, op, cfg, initErr, conn,
                   db, tx, fnErr, panicking, ret, entry, calls, monVars, simpleVars>>

GetRead(p) ==
    /\ pc[p] = "get_read"
    /\ ret' = [ret EXCEPT ![p] = GetResult(instance)]
    /\ pc' = [pc EXCEPT ![p] = "get_runlock"]
    /\ UNCHANGED <<instance, once, mu, conns, openCalls, op, cfg, initErr,
                   conn, db, tx, fnErr, panicking, entry, calls, monVars, simpleVars>>

\* Where the caller of Get() goes on: db, err := Get(); if err != nil { return err }
AfterGet(o, r) ==
    IF o = "Get" \/ r.err # NilErr THEN "idle"
    ELSE CASE o = "Stats"       -> "stats_read"
           [] o = "HealthCheck" -> "hc_ping"
           [] OTHER             -> "tx_begin"

GetRUnlock(p) ==
    /\ pc[p] = "get_runlock"
    /\ MuRUnlock(p)
    /\ pc' = [pc EXCEPT ![p] = AfterGet(op[p], ret[p])]
    /\ IF AfterGet(op[p], ret[p]) = "idle"
         THEN UNCHANGED <<db, ret>>
         ELSE /\ db' = [db EXCEPT ![p] = ret[p].db]
              /\ ret' = [ret EXCEPT ![p] = NoRet]
    /\ UNCHANGED <<instance, once, conns, openCalls, op, cfg, initErr, conn,
                   tx, fnErr, panicking, entry, calls, monVars, simpleVars>>

\* ---------------------------------------------------------------------- Close
CloseCall(p) ==
    /\ Enter(p, "Close", "close_lock")
    /\ UNCHANGED <<instance, once, mu, conns, openCalls, cfg, monVars, simpleVars>>

\* mu.Lock(); defer mu.Unlock()
CloseLock(p) ==
    /\ pc[p] = "close_lock"
    /\ MuLock(p)
    /\ pc' = [pc EXCEPT ![p] = "close_body"]
    /\ UNCHANGED <<instance, once, conns, openCalls, op, cfg, initErr, conn,
                   db, tx, fnErr, panicking, ret, entry, calls, monVars, simpleVars>>

\* instance.Close() was called on c and returned ok / an error
Closed(c, ok) == [c EXCEPT !.closes = @ + 1, !.closeOk = @ \/ ok]

\* instance after instance.Close() returned: "instance = nil" on success only
AfterClose_Keep(inst, ok) == inst

AfterClose(inst, ok) == IF ok THEN Nil ELSE inst

\* if instance == nil { return nil }
\* if err := instance.Close(); err != nil { return fmt.Errorf("...: %w", err) }
\* instance = nil; return nil
CloseBody(p) ==
    /\ pc[p] = "close_body"
    /\ IF instance = Nil
         THEN /\ ret' = [ret EXCEPT ![p] = NoRet]
              /\ UNCHANGED <<instance, conns>>
         ELSE \/ /\ conns' = [conns EXCEPT ![instance] = Closed(@, TRUE)]
                 /\ instance' = AfterClose(instance, TRUE)
                 /\ ret' = [ret EXCEPT ![p] = NoRet]
              \/ \E e \in CloseErrs :
                 /\ conns' = [conns EXCEPT ![instance] = Closed(@, FALSE)]
                 /\ ret' = [ret EXCEPT ![p] = [NoRet EXCEPT !.err =
                              ErrorfW("failed to close DB connection", e)]]
                 /\ instance' = AfterClose(instance, FALSE)
    /\ pc' = [pc EXCEPT ![p] = "close_unlock"]
    /\ UNCHANGED <<once, mu, openCalls, op, cfg, initErr, conn, db, tx, fnErr, panicking,
                   entry, calls, monVars, simpleVars>>

CloseUnlock(p) ==
    /\ pc[p] = "close_unlock"
    /\ MuUnlock(p)
    /\ pc' = [pc EXCEPT ![p] = "idle"]
    /\ UNCHANGED <<instance, once, conns, openCalls, op, cfg, initErr, conn,
                   db, tx, fnErr, panicking, ret, entry, calls, monVars, simpleVars>>

\* ---------------------------------------------------------------------- Stats
\* stats := db.Stats(); return &DBStats{MaxOpenConnections: ..., ...}, nil
DBStats(c) == <<[MaxOpenConnections |-> c.maxOpen]>>

StatsRead(p) ==
    /\ pc[p] = "stats_read"
    /\ ret' = [ret EXCEPT ![p] = [NoRet EXCEPT !.stats = DBStats(conns[db[p]])]]
    /\ pc' = [pc EXCEPT ![p] = "idle"]
    /\ NoLocals(p)
    /\ UNCHANGED <<instance, once, mu, conns, openCalls, op, cfg, tx, entry,
                   calls, monVars, simpleVars>>

\* ---------------------------------------------------------------- HealthCheck
\* What the driver can answer on c: a *sql.DB that was closed refuses.
DriverOk(c)      == c.closes = 0
DriverErrs(c, E) == IF c.closes = 0 THEN E ELSE {ErrDBClosed}

\* What db.PingContext(pingCtx) can return to goroutine p: the monitor's
\* pingCtx derives from its ctx, and a cancelled context fails the ping on an
\* open *sql.DB at once.
ProbeOutcomes(p, c) ==
    IF p = Mon /\ ctxDone /\ DriverOk(c)
      THEN {ErrCtxCanceled}
      ELSE (IF DriverOk(c) THEN {NilErr} ELSE {}) \cup DriverErrs(c, PingErrs)

\* if err != nil { return fmt.Errorf("%w: %v", ErrDBConnectionLost, err) }
\* return nil
ProbeResult(e) ==
    IF e = NilErr THEN NoRet
    ELSE [NoRet EXCEPT !.err = ErrorfWV(ErrDBConnectionLost, e)]

\* if err := db.PingContext(pingCtx); err != nil {
\*     return fmt.Errorf("%w: %v", ErrDBConnectionLost, err) }; return nil
\* c after db.PingContext(pingCtx) returned e: a probe and nothing else
Probed_CloseOnLoss(c, e) ==
    IF e = NilErr THEN [c EXCEPT !.probes = @ + 1]
    ELSE [c EXCEPT !.probes = @ + 1, !.closes = @ + 1]

Probed(c, e) == [c EXCEPT !.probes = @ + 1]

HealthCheckPing(p) ==
    /\ pc[p] = "hc_ping"
    /\ \E e \in ProbeOutcomes(p, conns[db[p]]) :
          /\ conns' = [conns EXCEPT ![db[p]] = Probed(@, e)]
          /\ ret' = [ret EXCEPT ![p] = ProbeResult(e)]
    /\ pc' = [pc EXCEPT ![p] = "idle"]
    /\ NoLocals(p)
    /\ UNCHANGED <<instance, once, mu, openCalls, op, cfg, tx, entry, calls, monVars, simpleVars>>

\* ------------------------------------------------------------ WithTransaction
\* What a driver call on c can return: nil, or one of E; a closed *sql.DB
\* only refuses.
DriverOutcomes(c, E) == (IF DriverOk(c) THEN {NilErr} ELSE {}) \cup DriverErrs(c, E)

\* tx, err := db.BeginTx(ctx, nil)
Begun(t, ok) == [t EXCEPT !.state = IF ok THEN "active" ELSE "begin_failed"]

\* if err != nil { return fmt.Errorf("failed to begin transaction: %w", err) }
AfterBegin_CallFn(e) == "tx_fn"

AfterBegin(e) == IF e = NilErr THEN "tx_fn" ELSE "idle"

BeginResult(e) ==
    IF e = NilErr THEN NoRet
    ELSE [NoRet EXCEPT !.err = ErrorfW("failed to begin transaction", e)]

TxBegin(p) ==
    /\ pc[p] = "tx_begin"
    /\ \E e \in DriverOutcomes(conns[db[p]], TxErrs) :
          /\ tx' = [tx EXCEPT ![p] = Begun(@, e = NilErr)]
          /\ ret' = [ret EXCEPT ![p] = BeginResult(e)]
          /\ pc' = [pc EXCEPT ![p] = AfterBegin(e)]
          /\ IF AfterBegin(e) = "idle"
               THEN NoLocals(p)
               ELSE UNCHANGED <<initErr, conn, db, fnErr, panicking>>
    /\ UNCHANGED <<instance, once, mu, conns, openCalls, op, cfg, entry, calls,
                   monVars, simpleVars>>

\* err := fn(tx): fn returns nil, returns an error, or panics
TxFn(p) ==
    /\ pc[p] = "tx_fn"
    /\ tx' = [tx EXCEPT ![p].fnCalls = @ + 1]
    /\ \/ /\ pc' = [pc EXCEPT ![p] = "tx_commit"]
          /\ UNCHANGED <<fnErr, panicking>>
       \/ \E e \in FnErrs :
          /\ fnErr' = [fnErr EXCEPT ![p] = e]
          /\ pc' = [pc EXCEPT ![p] = "tx_rollback"]
          /\ UNCHANGED panicking
       \/ \E v \in PanicVals :
          /\ panicking' = [panicking EXCEPT ![p] = v]
          /\ pc' = [pc EXCEPT ![p] = "tx_recover"]
          /\ UNCHANGED fnErr
    /\ UNCHANGED <<instance, once, mu, conns, openCalls, op, cfg, initErr,
                   conn, db, ret, entry, calls, monVars, simpleVars>>

\* tx.Rollback() was called and returned nil (ok) or an error
Rollback_Skipped(t, ok) == t

Rollback(t, ok) ==
    [t EXCEPT !.state = IF ok THEN "rolledback" ELSE "rollback_failed",
              !.rollbacks = @ + 1]

\* if rbErr := tx.Rollback(); rbErr != nil {
\*     return fmt.Errorf("transaction error: %v, rollback error: %w", err, rbErr) }
\* return err
RollbackResult(err, rbErr) ==
    IF rbErr = NilErr THEN err
    ELSE ErrorfVW("transaction error", err, "rollback error", rbErr)

TxRollback(p) ==
    /\ pc[p] = "tx_rollback"
    /\ \E rbErr \in {NilErr} \cup TxErrs :
          /\ tx' = [tx EXCEPT ![p] = Rollback(@, rbErr = NilErr)]
          /\ ret' = [ret EXCEPT ![p] =
                       [NoRet EXCEPT !.err = RollbackResult(fnErr[p], rbErr)]]
    /\ pc' = [pc EXCEPT ![p] = "idle"]
    /\ NoLocals(p)
    /\ UNCHANGED <<instance, once, mu, conns, openCalls, op, cfg, entry, calls,
                   monVars, simpleVars>>

\* tx.Commit() was called and returned nil (ok) or an error
Commit(t, ok) ==
    [t EXCEPT !.state = IF ok THEN "committed" ELSE "commit_failed",
              !.commits = @ + 1]

\* if err := tx.Commit(); err != nil { return fmt.Errorf("...: %w", err) }
\* return nil
CommitResult_Swallow(e) == NilErr

CommitResult(e) ==
    IF e = NilErr THEN NilErr
    ELSE ErrorfW("failed to commit transaction", e)

TxCommit(p) ==
    /\ pc[p] = "tx_commit"
    /\ \E e \in {NilErr} \cup TxErrs :
          /\ tx' = [tx EXCEPT ![p] = Commit(@, e = NilErr)]
          /\ ret' = [ret EXCEPT ![p] = [NoRet EXCEPT !.err = CommitResult(e)]]
    /\ pc' = [pc EXCEPT ![p] = "idle"]
    /\ NoLocals(p)
    /\ UNCHANGED <<instance, once, mu, conns, openCalls, op, cfg, entry, calls,
                   monVars, simpleVars>>

\* defer func() { if p := recover(); p != nil { _ = tx.Rollback(); ... } }()
\* the result of Rollback is discarded
TxRecover(p) ==
    /\ pc[p] = "tx_recover"
    /\ \E ok \in BOOLEAN : tx' = [tx EXCEPT ![p] = Rollback(@, ok)]
    /\ pc' = [pc EXCEPT ![p] = "tx_repanic"]
    /\ UNCHANGED <<instance, once, mu, conns, openCalls, op, cfg, initErr,
                   conn, db, fnErr, panicking, ret, entry, calls, monVars, simpleVars>>

\* ... panic(p): the recovered value leaves WithTransaction as a panic
Repanic_Swallow(v) == NoRet

Repanic(v) == [NoRet EXCEPT !.panic = TRUE, !.pval = v]

TxRepanic(p) ==
    /\ pc[p] = "tx_repanic"
    /\ ret' = [ret EXCEPT ![p] = Repanic(panicking[p])]
    /\ pc' = [pc EXCEPT ![p] = "idle"]
    /\ NoLocals(p)
    /\ UNCHANGED <<instance, once, mu, conns, openCalls, op, cfg, tx, entry,
                   calls, monVars, simpleVars>>

\* ----------------------------------------------------------- monitorConnection
\* go monitorConnection(ctx, interval):
\*     ticker := time.NewTicker(interval); defer ticker.Stop()
MonitorStart ==
    /\ mon = "off"
    /\ mon' = "select"
    /\ UNCHANGED <<instance, once, mu, conns, openCalls, pc, op, cfg, initErr,
                   conn, db, tx, fnErr, panicking, ret, entry, calls, ctxDone,
                   tickC, ticks, simpleVars>>

\* The manager has ended (once is spent, no handle): no health check that
\* starts from now on reaches db.PingContext.
NoProbeAhead == once = "done" /\ instance = Nil

\* The ticker puts a tick into ticker.C; it drops the tick when one is
\* already waiting there, and delivers none before NewTicker or after Stop.
\* Ticks that a probe may follow are counted and capped; the others go on
\* for ever.
Tick ==
    /\ mon \in {"select", "check"}
    /\ ~tickC
    /\ ticks < MaxTicks \/ NoProbeAhead
    /\ tickC' = TRUE
    /\ ticks' = IF NoProbeAhead THEN ticks ELSE ticks + 1
    /\ UNCHANGED <<instance, once, mu, conns, openCalls, pc, op, cfg, initErr,
                   conn, db, tx, fnErr, panicking, ret, entry, calls, mon,
                   ctxDone, simpleVars>>

\* The owner of ctx cancels it.
CtxCancel ==
    /\ ~ctxDone
    /\ ctxDone' = TRUE
    /\ UNCHANGED <<instance, once, mu, conns, openCalls, pc, op, cfg, initErr,
                   conn, db, tx, fnErr, panicking, ret, entry, calls, mon,
                   tickC, ticks, simpleVars>>

\* select { case <-ctx.Done(): ...; case <-ticker.C: ... }: the cases that
\* can proceed; select takes any one of them.
SelectReady_NoDone(done, tick) == IF tick THEN {"tick"} ELSE {}

SelectReady(done, tick) ==
    (IF done THEN {"done"} ELSE {}) \cup (IF tick THEN {"tick"} ELSE {})

\* case <-ticker.C: if err := HealthCheck(ctx); ...
MonitorTick ==
    /\ mon = "select"
    /\ "tick" \in SelectReady(ctxDone, tickC)
    /\ tickC' = FALSE
    /\ mon' = "check"
    /\ pc' = [pc EXCEPT ![Mon] = "get_rlock"]
    /\ op' = [op EXCEPT ![Mon] = "HealthCheck"]
    /\ ret' = [ret EXCEPT ![Mon] = NoRet]
    /\ UNCHANGED <<instance, once, mu, conns, openCalls, cfg, initErr, conn,
                   db, tx, fnErr, panicking, entry, calls, ctxDone, ticks, simpleVars>>

\* case <-ctx.Done(): return   (the deferred ticker.Stop() runs)
MonitorExit ==
    /\ mon = "select"
    /\ "done" \in SelectReady(ctxDone, tickC)
    /\ mon' = "exited"
    /\ UNCHANGED <<instance, once, mu, conns, openCalls, pc, op, cfg, initErr,
                   conn, db, tx, fnErr, panicking, ret, entry, calls, ctxDone,
                   tickC, ticks, simpleVars>>

\* if err := HealthCheck(ctx); err != nil { log.Printf(...) }, then the for
\* loop goes back to select
AfterCheck_ExitOnError(err) == IF err = NilErr THEN "select" ELSE "exited"

AfterCheck(err) == "select"

MonitorLog ==
    /\ mon = "check"
    /\ pc[Mon] = "idle"
    /\ mon' = AfterCheck(ret[Mon].err)
    /\ UNCHANGED <<instance, once, mu, conns, openCalls, pc, op, cfg, initErr,
                   conn, db, tx, fnErr, panicking, ret, entry, calls, ctxDone,
                   tickC, ticks, simpleVars>>

\* The statements of HealthCheck as the monitor goroutine runs them.
MonitorCheck ==
    GetRLock(Mon) \/ GetRead(Mon) \/ GetRUnlock(Mon) \/ HealthCheckPing(Mon)

\* ----------------------------------------------------------------------- Next
Next ==
    \E p \in Procs :
       \/ InitCall(p) \/ InitOnce(p) \/ InitLock(p) \/ InitOpen(p)
       \/ InitConfig(p) \/ InitPing(p) \/ InitUnlock(p) \/ InitOnceDone(p)
       \/ InitReturn(p)
       \/ GetCall(p) \/ GetRLock(p) \/ GetRead(p) \/ GetRUnlock(p)
       \/ CloseCall(p) \/ CloseLock(p) \/ CloseBody(p) \/ CloseUnlock(p)
       \/ StatsRead(p) \/ HealthCheckPing(p)
       \/ TxBegin(p) \/ TxFn(p) \/ TxRollback(p) \/ TxCommit(p) \/ TxRecover(p)
       \/ TxRepanic(p)

Spec == Init /\ [][Next]_vars

\* The package with monitorConnection started on a ctx, beside goroutines that
\* call Init and Close.
InitSteps(p) ==
    \/ InitCall(p) \/ InitOnce(p) \/ InitLock(p) \/ InitOpen(p)
    \/ InitConfig(p) \/ InitPing(p) \/ InitUnlock(p) \/ InitOnceDone(p)
    \/ InitReturn(p)

CloseSteps(p) ==
    CloseCall(p) \/ CloseLock(p) \/ CloseBody(p) \/ CloseUnlock(p)

\* The goroutine that calls Init and Close while the monitor runs.
Caller == CHOOSE p \in Procs : TRUE

NextMonitor ==
    \/ InitSteps(Caller) \/ CloseSteps(Caller)
    \/ MonitorStart \/ Tick \/ CtxCancel
    \/ MonitorTick \/ MonitorExit \/ MonitorLog
    \/ MonitorCheck

\* A goroutine inside a call keeps running; the ticker keeps ticking; a
\* select with a ready case proceeds, and since select chooses among its ready
\* cases at random, a case that is ready again and again is taken at some
\* point.
MonitorFairness ==
    /\ WF_vars((InitSteps(Caller) \/ CloseSteps(Caller)) /\ pc[Caller] # "idle")
    /\ WF_vars(Tick)
    /\ WF_vars(MonitorCheck \/ MonitorLog)
    /\ WF_vars(MonitorTick \/ MonitorExit)
    /\ SF_vars(MonitorExit)

MonitorSpec == Init /\ [][NextMonitor]_vars /\ MonitorFairness

\* ---------------------------------------------------------- simplified manager
\* The variant of the package that keeps only `db` and `once`
\* (src/unnamed/part_001): Init and Get, with no mutex, no Close.

\* log.Fatal has ended the process: no goroutine takes another step
Exited == \E q \in Procs : pc[q] = "fatal"

SimpleInitCall(p) ==
    /\ ~Exited
    /\ Enter(p, "Init", "s_once")
    /\ UNCHANGED <<instance, once, mu, conns, openCalls, cfg, monVars,
                   simpleVars>>

\* once.Do(func() {...})
SimpleInitOnce(p) ==
    /\ ~Exited
    /\ pc[p] = "s_once"
    /\ OnceDo(once) # "wait"
    /\ IF OnceDo(once) = "run"
         THEN /\ once' = "running"
              /\ pc' = [pc EXCEPT ![p] = "s_open"]
         ELSE /\ once' = once
              /\ pc' = [pc EXCEPT ![p] = "s_ret"]
    /\ UNCHANGED <<instance, mu, conns, openCalls, op, cfg, initErr, conn, db,
                   tx, fnErr, panicking, ret, entry, calls, monVars,
                   simpleVars>>

\* db, err = sql.Open("postgres", cfg.DBUrl); if err != nil { return }
SimpleInitOpen(p) ==
    /\ ~Exited
    /\ pc[p] = "s_open"
    /\ openCalls' = openCalls + 1
    /\ \/ /\ conns' = Append(conns, NewConn)
          /\ simpleDb' = Len(conns) + 1
          /\ simpleErr' = [simpleErr EXCEPT ![p] = NilErr]
          /\ pc' = [pc EXCEPT ![p] = "s_config"]
       \/ \E e \in OpenErrs :
          /\ simpleDb' = Nil
          /\ simpleErr' = [simpleErr EXCEPT ![p] = e]
          /\ pc' = [pc EXCEPT ![p] = "s_oncedone"]
          /\ UNCHANGED conns
    /\ UNCHANGED <<instance, once, mu, op, cfg, initErr, conn, db, tx, fnErr,
                   panicking, ret, entry, calls, monVars>>

\* db.SetMaxOpenConns(10); db.SetMaxIdleConns(5);
\* db.SetConnMaxLifetime(30 * time.Minute)
SimpleConfigured(c) ==
    [c EXCEPT !.maxOpen = 10, !.maxIdle = 5, !.maxLifetime = 30,
              !.configs = @ + 1]

SimpleInitConfig(p) ==
    /\ ~Exited
    /\ pc[p] = "s_config"
    /\ conns' = [conns EXCEPT ![simpleDb] = SimpleConfigured(@)]
    /\ pc' = [pc EXCEPT ![p] = "s_ping"]
    /\ UNCHANGED <<instance, once, mu, openCalls, op, cfg, initErr, conn, db,
                   tx, fnErr, panicking, ret, entry, calls, monVars,
                   simpleVars>>

\* c after db.PingContext(ctx) returned e: nothing is closed on an error
SimplePinged(c, e) ==
    [c EXCEPT !.initPings = @ + 1, !.pingOk = (e = NilErr)]

\* if err = db.PingContext(ctx); err != nil { return }
SimpleInitPing(p) ==
    /\ ~Exited
    /\ pc[p] = "s_ping"
    /\ \E e \in {NilErr} \cup PingErrs :
          /\ conns' = [conns EXCEPT ![simpleDb] = SimplePinged(@, e)]
          /\ simpleErr' = [simpleErr EXCEPT ![p] = e]
    /\ pc' = [pc EXCEPT ![p] = "s_oncedone"]
    /\ UNCHANGED <<instance, once, mu, openCalls, op, cfg, initErr, conn, db,
                   tx, fnErr, panicking, ret, entry, calls, monVars, simpleDb>>

\* once.Do returns
SimpleInitOnceDone(p) ==
    /\ ~Exited
    /\ pc[p] = "s_oncedone"
    /\ once' = "done"
    /\ pc' = [pc EXCEPT ![p] = "s_ret"]
    /\ UNCHANGED <<instance, mu, conns, openCalls, op, cfg, initErr, conn, db,
                   tx, fnErr, panicking, ret, entry, calls, monVars,
                   simpleVars>>

\* return db, err
SimpleInitReturn(p) ==
    /\ ~Exited
    /\ pc[p] = "s_ret"
    /\ ret' = [ret EXCEPT ![p] = [NoRet EXCEPT !.db = simpleDb, !.err = simpleErr[p]]]
    /\ simpleErr' = [simpleErr EXCEPT ![p] = NilErr]
    /\ pc' = [pc EXCEPT ![p] = "idle"]
    /\ UNCHANGED <<instance, once, mu, conns, openCalls, op, cfg, initErr,
                   conn, db, tx, fnErr, panicking, entry, calls, monVars,
                   simpleDb>>

SimpleGetCall(p) ==
    /\ ~Exited
    /\ Enter(p, "Get", "s_get")
    /\ UNCHANGED <<instance, once, mu, conns, openCalls, cfg, monVars,
                   simpleVars>>

\* if db == nil { log.Fatal(...) }; return db
SimpleGet(p) ==
    /\ ~Exited
    /\ pc[p] = "s_get"
    /\ IF simpleDb = Nil
         THEN /\ pc' = [pc EXCEPT ![p] = "fatal"]
              /\ UNCHANGED ret
         ELSE /\ pc' = [pc EXCEPT ![p] = "idle"]
              /\ ret' = [ret EXCEPT ![p] = [NoRet EXCEPT !.db = simpleDb]]
    /\ UNCHANGED <<instance, once, mu, conns, openCalls, op, cfg, initErr,
                   conn, db, tx, fnErr, panicking, entry, calls, monVars,
                   simpleVars>>

SimpleNext ==
    \E p \in Procs :
       \/ SimpleInitCall(p) \/ SimpleInitOnce(p) \/ SimpleInitOpen(p)
       \/ SimpleInitConfig(p) \/ SimpleInitPing(p)
       \/ SimpleInitOnceDone(p) \/ SimpleInitReturn(p)
       \/ SimpleGetCall(p) \/ SimpleGet(p)

SimpleSpec == Init /\ [][SimpleNext]_vars

TypeOK ==
    /\ instance \in 0..Len(conns)
    /\ once \in {"fresh", "running", "done"}
    /\ mu.writer \in {Nil} \cup Procs
    /\ mu.readers \subseteq Goroutines
    /\ mu.writer # Nil => mu.readers = {}

\* ------------------------------------------------------------------ properties
Returned(p, o) == pc[p] = "idle" /\ op[p] = o

\* p executes the statement labelled l in this step
Steps(p, l) == pc[p] = l /\ pc'[p] # l

NotInitializedResult == [NoRet EXCEPT !.err = ErrDBNotInitialized]

\* The handle whose ping passed, Nil when there is none
Published ==
    IF \E h \in 1..Len(conns) : conns[h].pingOk
      THEN CHOOSE h \in 1..Len(conns) : conns[h].pingOk
      ELSE Nil

\* C1 (as stated): once some Init call has returned, the connection has been
\* opened and pool-configured exactly once and the ping issued exactly once.
C1_OpenedConfiguredPingedOnce ==
    (\E p \in Procs : Returned(p, "Init")) =>
        /\ openCalls = 1
        /\ Len(conns) = 1
        /\ conns[1].configs = 1
        /\ conns[1].initPings = 1

\* C1 (amended): sql.Open is never called twice and is called exactly once by
\* the time any Init call has returned; no handle is pool-configured or pinged
\* by Init more than once, and a handle that sql.Open returned is configured
\* and pinged exactly once; when sql.Open fails nothing is configured or pinged.
C1_AttemptExactlyOnce ==
    /\ openCalls <= 1
    /\ Len(conns) <= openCalls
    /\ \A h \in 1..Len(conns) : conns[h].configs <= 1 /\ conns[h].initPings <= 1
    /\ (\E p \in Procs : Returned(p, "Init")) =>
          /\ openCalls = 1
          /\ \A h \in 1..Len(conns) :
                conns[h].configs = 1 /\ conns[h].initPings = 1

\* Two callers are inside Init at once; one has run the attempt, the other
\* has been waiting in once.Do.
C1_Witness ==
    \E p, q \in Procs :
       /\ pc[p] = "init_oncedone" /\ pc[q] = "init_once"
       /\ openCalls = 1 /\ Len(conns) = 1
       /\ conns[1].configs = 1 /\ conns[1].initPings = 1

\* C2: with only Init called, any two Init calls that have returned have
\* returned the same handle and the same error.
C2_SameOutcome ==
    (TotalCalls = calls["Init"]) =>
        \A p, q \in Procs :
           (Returned(p, "Init") /\ Returned(q, "Init")) => ret[p] = ret[q]

\* C3: a Get that reads instance before any Init call was made returns
\* (nil, ErrDBNotInitialized); a Get that reads it after a successful Init and
\* before any Close call returns (the published handle, nil); Get never
\* panics, and whoever holds mu for writing is executing, never waiting, so
\* Get's RLock is not held up for good.
WriterPcs == {"init_open", "init_config", "init_ping", "init_unlock",
              "close_body", "close_unlock"}

C3_GetStep ==
    \A p \in Procs :
       Steps(p, "get_read") =>
          /\ calls["Init"] = 0 => ret'[p] = NotInitializedResult
          /\ (once = "done" /\ Published # Nil /\ calls["Close"] = 0) =>
                ret'[p] = [NoRet EXCEPT !.db = Published]
          /\ ~ret'[p].panic

C3_GetBeforeInitAndWhileReady ==
    /\ [](mu.writer # Nil => pc[mu.writer] \in WriterPcs)
    /\ [][C3_GetStep]_vars

C3_Witness ==
    \E p, q \in Procs :
       /\ Returned(p, "Get") /\ entry[p] = "Live"
       /\ ret[p] = NotInitializedResult
       /\ Returned(q, "Get") /\ entry[q] = "Live"
       /\ ret[q] = [NoRet EXCEPT !.db = Published] /\ Published # Nil
       /\ calls["Close"] = 0

\* C4: a Get made after a successful Init and a successful Close fails with
\* an error that is not the not-initialized error.
C4_AlreadyClosed ==
    \A p \in Procs :
       (Returned(p, "Get") /\ entry[p] = "Closed") =>
          /\ ret[p].err # NilErr
          /\ ~ErrorsIs(ret[p].err, ErrDBNotInitialized)

\* C5: while the manager is Ready, no statement of an Init call opens,
\* configures, pings or republishes anything, whatever cfg it was given, and
\* an Init call that returns then returns (instance, nil).
C5_InitStep ==
    \A p \in Procs :
       (op[p] = "Init" /\ pc[p] # "idle" /\ pc'[p] # pc[p] /\ instance # Nil) =>
          /\ openCalls' = openCalls
          /\ conns' = conns
          /\ instance' = instance
          /\ pc[p] = "init_ret" => ret'[p] = [NoRet EXCEPT !.db = instance]

C5_InitIdempotentWhenReady == [][C5_InitStep]_vars

\* A second Init call, given another cfg than the one in force, is about to
\* return while the manager is Ready, after the first call has returned.
C5_Witness ==
    \E p, q \in Procs :
       /\ pc[p] = "init_ret" /\ conn[p] = Nil /\ instance # Nil
       /\ conns[instance].maxOpen # cfg[p].DBMaxOpenConns
       /\ conns[instance].configs = 1 /\ conns[instance].initPings = 1
       /\ openCalls = 1
       /\ Returned(q, "Init") /\ ret[q] = [NoRet EXCEPT !.db = instance]

\* C6: an Init call made after the manager was closed returns no handle and a
\* non-nil error.
C6_InitAfterClose ==
    \A p \in Procs :
       (Returned(p, "Init") /\ entry[p] = "Closed") =>
          /\ ret[p].db = Nil
          /\ ret[p].err # NilErr

\* C7: once a Close has succeeded on a published handle, instance stays nil,
\* sql.Open is never called again, and every Get (also the one inside Stats,
\* HealthCheck and WithTransaction) returns no handle.
C7_Step ==
    /\ ClosedOk' => instance' = Nil
    /\ ClosedOk => /\ ClosedOk'
                   /\ openCalls' = openCalls
                   /\ Len(conns') = Len(conns)
                   /\ \A p \in Procs : Steps(p, "get_read") => ret'[p].db = Nil

C7_ClosedIsTerminal == [][C7_Step]_vars

C7_Witness ==
    /\ ClosedOk /\ instance = Nil /\ openCalls = 1
    /\ \E p \in Procs :
          Returned(p, "Init") /\ entry[p] = "Closed" /\ ret[p].db = Nil

\* C8: an Init call made after a failed attempt has, by the time it returns,
\* made a new attempt (a second sql.Open).
C8_RetryAfterFailure ==
    \A p \in Procs :
       (Returned(p, "Init") /\ entry[p] = "Failed") => openCalls >= 2

\* C9: the Init call whose ping failed closes the connection it opened before
\* it leaves the closure and returns (nil, an error that wraps the ping's
\* cause); a handle whose ping did not pass is never instance; and a Get made
\* after the failed attempt returns (nil, ErrDBNotInitialized).
PingFailedBy(p) ==
    /\ pc[p] \in {"init_unlock", "init_oncedone", "init_ret"}
    /\ conn[p] # Nil
    /\ ~conns[conn[p]].pingOk

C9_State ==
    /\ \A p \in Procs : PingFailedBy(p) => conns[conn[p]].closes >= 1
    /\ instance # Nil => conns[instance].pingOk
    /\ \A q \in Procs :
          (Returned(q, "Get") /\ entry[q] = "Failed") =>
             ret[q] = NotInitializedResult

C9_Step ==
    \A p \in Procs :
       (PingFailedBy(p) /\ Steps(p, "init_ret")) =>
          /\ ret'[p].db = Nil
          /\ ret'[p].err # NilErr
          /\ \E e \in PingErrs : ErrorsIs(ret'[p].err, e)

C9_PingFailureCleansUp == []C9_State /\ [][C9_Step]_vars

\* The ping of the only attempt failed, its connection was closed, the Init
\* call returned an error and a Get made afterwards has returned.
C9_Witness ==
    \E p, q \in Procs :
       /\ Returned(p, "Init") /\ entry[p] = "Live" /\ ret[p].err # NilErr
       /\ Len(conns) = 1 /\ ~conns[1].pingOk
       /\ conns[1].initPings = 1 /\ conns[1].closes = 1
       /\ Returned(q, "Get") /\ entry[q] = "Failed"
       /\ ret[q] = NotInitializedResult

\* C10 (as stated): a Close that finds no handle returns nil, closes nothing
\* and changes neither instance nor once; every Close call returns nil and a
\* published handle has close invoked on it at most once.
C10_NoHandleStep ==
    \A p \in Procs :
       (Steps(p, "close_body") /\ instance = Nil) =>
          /\ ret'[p] = NoRet
          /\ conns' = conns
          /\ instance' = Nil
          /\ once' = once

C10_AsStatedStep ==
    /\ C10_NoHandleStep
    /\ \A p \in Procs : Steps(p, "close_body") => ret'[p] = NoRet
    /\ \A h \in 1..Len(conns) : conns'[h].closes <= 1

C10_Step ==
    /\ C10_NoHandleStep
    /\ \A p \in Procs :
          (Steps(p, "close_body") /\ instance # Nil
             /\ conns'[instance].closeOk) =>
                ret'[p] = NoRet /\ instance' = Nil
    /\ ClosedOk =>
          /\ \A h \in 1..Len(conns) : conns'[h].closes = conns[h].closes
          /\ \A p \in Procs : Steps(p, "close_body") => ret'[p] = NoRet

TxLeft(p) == Returned(p, "WithTransaction") /\ tx[p].fnCalls > 0

\* C11: a WithTransaction call that began its transaction and invoked fn has
\* issued exactly one of Commit and Rollback when control leaves it, on every
\* exit path (fn returned nil, fn returned an error, fn panicked); at no
\* moment has it issued both, and fn is invoked once.
C11_ExactlyOneOfCommitRollback ==
    \A p \in Procs :
        /\ tx[p].commits + tx[p].rollbacks <= 1
        /\ tx[p].fnCalls <= 1
        /\ TxLeft(p) => tx[p].commits + tx[p].rollbacks = 1

\* One call left by a panic after its rollback, another left after its commit.
C11_Witness ==
    \E p, q \in Procs :
        /\ TxLeft(p) /\ ret[p].panic /\ tx[p].rollbacks = 1
        /\ TxLeft(q) /\ ~ret[q].panic /\ tx[q].commits = 1

\* p's call got nil from fn: it went on to tx.Commit()
FnReturnedNil(p) == tx[p].state \in {"committed", "commit_failed"}

\* C12: when fn returns nil, WithTransaction issues Commit and no Rollback;
\* it returns nil exactly when fn returned nil and Commit succeeded; when
\* Commit fails it returns a commit-failed error that wraps the driver error.
C12_State ==
    \A p \in Procs :
        /\ FnReturnedNil(p) => tx[p].commits = 1 /\ tx[p].rollbacks = 0
        /\ Returned(p, "WithTransaction") =>
              (ret[p] = NoRet <=> tx[p].state = "committed")
        /\ (Returned(p, "WithTransaction") /\ tx[p].state = "commit_failed") =>
              /\ ret[p].err.text[1] = "failed to commit transaction"
              /\ \E e \in TxErrs : ErrorsIs(ret[p].err, e)

C12_Step ==
    \A p \in Procs :
        /\ (Steps(p, "tx_fn") /\ fnErr'[p] = NilErr /\ panicking'[p] = NoPanic)
              => pc'[p] = "tx_commit"
        /\ Steps(p, "tx_commit") => tx'[p].commits = 1 /\ pc'[p] = "idle"

C12_CommitOnSuccess == []C12_State /\ [][C12_Step]_vars

\* One call whose commit failed and one whose commit succeeded.
C12_Witness ==
    \E p, q \in Procs :
        /\ Returned(p, "WithTransaction") /\ tx[p].state = "commit_failed"
        /\ Returned(q, "WithTransaction") /\ tx[q].state = "committed"

\* C13 (as stated): when fn returns an error, WithTransaction issues Rollback
\* and never Commit; when Rollback succeeds the returned error is fn's error
\* unchanged; when Rollback fails the returned error is one error from which
\* both fn's error and the rollback error can still be recovered (errors.Is).
C13_Step ==
    \A p \in Procs :
        Steps(p, "tx_rollback") =>
            /\ tx'[p].rollbacks = 1 /\ tx'[p].commits = 0
            /\ pc'[p] = "idle"
            /\ tx'[p].state = "rolledback" => ret'[p].err = fnErr[p]
            /\ tx'[p].state = "rollback_failed" =>
                  /\ ErrorsIs(ret'[p].err, fnErr[p])
                  /\ \E e \in TxErrs : ErrorsIs(ret'[p].err, e)

C13_FnErrorRollsBack == [][C13_Step]_vars

\* C14: when fn panics, WithTransaction first issues Rollback and only then
\* lets the panic go on with the same value; the panic is never swallowed
\* (the call never returns normally) and Commit is never issued.
C14_State ==
    \A p \in Procs :
        /\ pc[p] \in {"tx_recover", "tx_repanic"} => panicking[p] \in PanicVals
        /\ ret[p].panic =>
              /\ tx[p].rollbacks = 1 /\ tx[p].commits = 0
              /\ ret[p].pval \in PanicVals

C14_Step ==
    \A p \in Procs :
        /\ (Steps(p, "tx_fn") /\ panicking'[p] # NoPanic) =>
              pc'[p] = "tx_recover"
        /\ Steps(p, "tx_recover") =>
              /\ tx'[p].rollbacks = 1 /\ tx'[p].commits = 0
              /\ pc'[p] = "tx_repanic"
              /\ ~ret'[p].panic
              /\ panicking'[p] = panicking[p]
        /\ Steps(p, "tx_repanic") =>
              /\ tx[p].rollbacks = 1 /\ tx'[p] = tx[p]
              /\ ret'[p].panic /\ ret'[p].pval = panicking[p]

C14_PanicRollsBackThenPropagates == []C14_State /\ [][C14_Step]_vars

\* A panic that left WithTransaction although its rollback had failed.
C14_Witness ==
    \E p \in Procs :
        /\ Returned(p, "WithTransaction")
        /\ ret[p].panic /\ ret[p].pval = "panic: nil map"
        /\ tx[p].state = "rollback_failed"

\* p's call issued nothing on a transaction
NothingIssued(p) ==
    tx[p].fnCalls = 0 /\ tx[p].commits = 0 /\ tx[p].rollbacks = 0

\* C15: WithTransaction never invokes fn without a live transaction. When
\* Get() finds no handle it returns ErrDBNotInitialized without beginning a
\* transaction or calling fn; when BeginTx fails it returns a begin-failed
\* error wrapping the driver error, without calling fn, Commit or Rollback.
C15_State ==
    \A p \in Procs :
        /\ pc[p] = "tx_fn" => tx[p].state = "active"
        /\ tx[p].fnCalls > 0 => tx[p].state \notin {"none", "begin_failed"}
        /\ (Returned(p, "WithTransaction") /\ tx[p].state = "none") =>
              ret[p] = NotInitializedResult /\ NothingIssued(p)
        /\ (Returned(p, "WithTransaction") /\ tx[p].state = "begin_failed") =>
              /\ ret[p].err.text[1] = "failed to begin transaction"
              /\ \E e \in TxErrs \cup {ErrDBClosed} : ErrorsIs(ret[p].err, e)
              /\ NothingIssued(p)

C15_Step ==
    \A p \in Procs :
        op[p] = "WithTransaction" =>
            /\ (Steps(p, "get_read") /\ instance = Nil) =>
                  ret'[p] = NotInitializedResult
            /\ (Steps(p, "get_runlock") /\ ret[p].err # NilErr) =>
                  pc'[p] = "idle" /\ ret'[p] = ret[p] /\ tx'[p] = NoTx
            /\ (Steps(p, "tx_begin") /\ tx'[p].state = "begin_failed") =>
                  pc'[p] = "idle"

C15_NoFnWithoutTransaction == []C15_State /\ [][C15_Step]_vars

\* One call refused for lack of a handle, another whose BeginTx failed.
C15_Witness ==
    \E p, q \in Procs :
        /\ Returned(p, "WithTransaction") /\ tx[p].state = "none"
        /\ Returned(q, "WithTransaction") /\ tx[q].state = "begin_failed"

\* C16 (as stated): HealthCheck returns ErrDBNotInitialized and issues no
\* probe when Get() finds no handle; otherwise it issues one probe, bounded by
\* its own timeout, and returns nil when the probe succeeds; when the probe
\* fails (deadline included) it returns an error that is ErrDBConnectionLost
\* and from which the probe's own error can still be recovered (errors.Is).
C16_Step ==
    \A p \in Procs :
        op[p] = "HealthCheck" =>
            /\ (Steps(p, "get_read") /\ instance = Nil) =>
                  ret'[p] = NotInitializedResult
            /\ (Steps(p, "get_runlock") /\ ret[p].err # NilErr) =>
                  pc'[p] = "idle" /\ ret'[p] = ret[p] /\ conns' = conns
            /\ Steps(p, "hc_ping") =>
                  /\ conns'[db[p]].probes = conns[db[p]].probes + 1
                  /\ pc'[p] = "idle"
                  /\ \/ ret'[p] = NoRet
                     \/ /\ ErrorsIs(ret'[p].err, ErrDBConnectionLost)
                        /\ \E e \in PingErrs \cup {ErrDBClosed} :
                              ErrorsIs(ret'[p].err, e)

C16_HealthCheckWrapsCause == [][C16_Step]_vars

\* ------------------------------------------------------------ monitor properties
\* Number of monitorConnection loops running
Monitors == IF mon \in {"select", "check"} THEN 1 ELSE 0

\* Some Init call has returned the handle and the manager is Ready since
InitSucceeded ==
    /\ \E p \in Procs : Returned(p, "Init") /\ ret[p].db # Nil
    /\ Lifecycle = "Ready"
    /\ \A h \in 1..Len(conns) : conns[h].closes = 0

\* C17 (as stated): a successful Init starts the monitor: in every state where
\* Init has succeeded, the manager is Ready, Close has not been called on the
\* handle and ctx is not cancelled, exactly one monitorConnection is running.
C17_MonitorRunsWhileReady ==
    (InitSucceeded /\ ~ctxDone) => Monitors = 1

\* A Close call that closed the published handle has returned
CloseReturned ==
    ClosedOk /\ \E p \in Procs : Returned(p, "Close") /\ ret[p] = NoRet

\* C18 (as stated): Close on a Ready manager makes the monitor stop: once Close
\* has returned, a monitorConnection loop that is running eventually exits,
\* whether or not ctx is ever cancelled.
C18_CloseStopsMonitor == (CloseReturned /\ Monitors = 1) ~> (mon = "exited")

\* The monitor goroutine takes a step of its health check or of what follows it
MonitorChecks == mon = "check" /\ (pc'[Mon] # pc[Mon] \/ mon' # mon)

\* c after at most one more probe, otherwise untouched
ProbedOrSame(c, d) == d = c \/ d = [c EXCEPT !.probes = @ + 1]

\* C19: a failed health check in the monitor loop is only reported: the
\* monitor's steps never change the lifecycle state or the shared handle,
\* never open, close or reconfigure a connection, never end the loop and never
\* panic; after a failed check the loop is back at its select.
C19_Step ==
    MonitorChecks =>
        /\ instance' = instance /\ once' = once /\ openCalls' = openCalls
        /\ Lifecycle' = Lifecycle
        /\ Len(conns') = Len(conns)
        /\ \A h \in 1..Len(conns) : ProbedOrSame(conns[h], conns'[h])
        /\ mon' \in {"check", "select"}
        /\ ~ret'[Mon].panic
        /\ (pc[Mon] = "idle" /\ ret[Mon].err # NilErr) => mon' = "select"

C19_FailedCheckOnlyReported == [][C19_Step]_vars

\* The loop waits for its next tick after a check that found the connection
\* lost, with the manager still Ready.
C19_Witness ==
    /\ mon = "select"
    /\ ErrorsIs(ret[Mon].err, ErrDBConnectionLost)
    /\ Lifecycle = "Ready"
    /\ ticks < MaxTicks

\* Probes issued so far, over every handle
RECURSIVE ProbesUpTo(_)
ProbesUpTo(h) == IF h = 0 THEN 0 ELSE conns[h].probes + ProbesUpTo(h - 1)

\* C20: once the ctx given to monitorConnection is cancelled, a running loop
\* eventually exits, also when a tick is pending at the same time; and once it
\* has exited it stays exited, runs no statement of HealthCheck and issues no
\* probe.
C20_Exits == (ctxDone /\ Monitors = 1) ~> (mon = "exited")

C20_Step ==
    mon = "exited" =>
        /\ mon' = "exited"
        /\ pc'[Mon] = pc[Mon] /\ pc[Mon] = "idle"
        /\ Len(conns') >= Len(conns)
        /\ \A h \in 1..Len(conns) : conns'[h].probes = conns[h].probes

C20_CancelStopsMonitor == C20_Exits /\ [][C20_Step]_vars

\* The loop left through ctx.Done() with a tick waiting in ticker.C, after it
\* had run a probe.
C20_Witness ==
    mon = "exited" /\ tickC /\ ProbesUpTo(Len(conns)) > 0

\* Handle h had the pool settings of some cfg applied once and its ping passed
Verified(h) ==
    /\ conns[h].pingOk /\ conns[h].initPings = 1
    /\ conns[h].configs = 1
    /\ \E k \in Cfgs : conns[h] = [PoolConfigured(NewConn, k) EXCEPT
                                     !.initPings = conns[h].initPings,
                                     !.pingOk = conns[h].pingOk,
                                     !.probes = conns[h].probes,
                                     !.closes = conns[h].closes,
                                     !.closeOk = conns[h].closeOk]

\* C21: in every interleaving of Init with Get, Stats, HealthCheck and
\* WithTransaction callers, a handle is published, returned by Get or held by
\* a caller only after the pool settings were applied to it and its ping
\* passed.
C21_HandleVerifiedBeforeSeen ==
    /\ instance # Nil => Verified(instance)
    /\ \A p \in Procs :
          /\ ret[p].db # Nil => Verified(ret[p].db)
          /\ db[p] # Nil => Verified(db[p])

\* A caller got the handle from Get while the Init call that published it
\* had not yet returned.
C21_Witness ==
    \E p, q \in Procs :
        /\ Returned(p, "Get") /\ ret[p].db # Nil
        /\ op[q] = "Init" /\ pc[q] \in {"init_unlock", "init_oncedone", "init_ret"}
        /\ conn[q] = ret[p].db

\* C22 (as stated): every Init attempt, a failed or timed-out ping included,
\* ends with the write lock released and, unless a Close has come in between,
\* with the manager Uninitialized (a later Init attempts again) or Ready; it
\* is not left in any other state.
C22_Step ==
    \A p \in Procs :
        Steps(p, "init_oncedone") =>
            /\ mu'.writer # p
            /\ Lifecycle' \in {"Uninitialized", "Ready", "Closed"}

C22_AttemptEndsUninitializedOrReady == [][C22_Step]_vars

\* C23 (as stated): every access to instance is made under mu: the writes of
\* Init and Close with the write lock held, the reads of Get (for itself and
\* for Stats, HealthCheck and WithTransaction) and the read of the value Init
\* returns with at least the read lock held.
C23_Step ==
    \A p \in Procs :
        /\ Steps(p, "init_ping") => mu.writer = p
        /\ Steps(p, "close_body") => mu.writer = p
        /\ Steps(p, "get_read") => p \in mu.readers
        /\ Steps(p, "init_ret") => (mu.writer = p \/ p \in mu.readers)

C23_HandleAccessedUnderLock == [][C23_Step]_vars

\* The simplified manager's Init attempt is over and its ping had failed
SimplePingFailed ==
    /\ once = "done"
    /\ \E h \in 1..Len(conns) : conns[h].initPings = 1 /\ ~conns[h].pingOk

\* C24 (as stated): in the simplified manager, when the ping in Init fails
\* the opened connection is discarded and nothing is published: db is nil,
\* the connection was closed, and a Get after the failed Init does not return
\* the unverified handle.
C24_State ==
    SimplePingFailed =>
        /\ simpleDb = Nil
        /\ \A h \in 1..Len(conns) : conns[h].closes > 0

C24_Step ==
    \A p \in Procs :
        (Steps(p, "s_get") /\ SimplePingFailed) => ret'[p].db = Nil

C24_SimpleFailedPingDiscards == []C24_State /\ [][C24_Step]_vars

\* C25 (as stated): every Init call, whatever Init and Close calls came before
\* or run beside it, returns a handle with a nil error or no handle with a
\* non-nil error; never no handle and a nil error.
C25_InitNeverNilNil ==
    \A p \in Procs :
        Returned(p, "Init") =>
            \/ ret[p].db # Nil /\ ret[p].err = NilErr
            \/ ret[p].db = Nil /\ ret[p].err # NilErr

\* C26 (as stated): Get never hands out a handle on which the manager has
\* already called the driver's Close, also when that Close reported an error.
C26_Step ==
    \A p \in Procs :
        (Steps(p, "get_read") /\ ret'[p].db # Nil) =>
            conns[ret'[p].db].closes = 0

C26_GetNeverReturnsClosedHandle == [][C26_Step]_vars

ReadOps == {"Get", "Stats", "HealthCheck", "WithTransaction"}

\* Goroutine p takes a step of (or enters) one of the four reading functions
ReadOpStep(p) == op'[p] \in ReadOps /\ pc'[p] # pc[p]

\* C27: Get, Stats, HealthCheck and WithTransaction leave the lifecycle state
\* as it is on every path (success, error, panic in fn): they neither set nor
\* clear instance, touch once, open a connection, nor close one; instance is
\* set only by Init and cleared only by Close.
C27_Step ==
    /\ \A p \in Procs :
          ReadOpStep(p) =>
              /\ instance' = instance /\ once' = once
              /\ Lifecycle' = Lifecycle
              /\ openCalls' = openCalls /\ Len(conns') = Len(conns)
              /\ \A h \in 1..Len(conns) :
                    /\ conns'[h].closes = conns[h].closes
                    /\ conns'[h].closeOk = conns[h].closeOk
                    /\ conns'[h].pingOk = conns[h].pingOk
    /\ (instance' # instance /\ instance' # Nil) =>
          \E p \in Procs : op[p] = "Init" /\ Steps(p, "init_ping")
    /\ (instance' # instance /\ instance' = Nil) =>
          \E p \in Procs : op[p] = "Close" /\ Steps(p, "close_body")

C27_ReadersLeaveLifecycle == [][C27_Step]_vars

\* A WithTransaction left by a panic and a HealthCheck that failed, with the
\* manager Ready and the handle open afterwards.
C27_Witness ==
    /\ Lifecycle = "Ready"
    /\ conns[instance].closes = 0
    /\ \E p, q \in Procs :
          /\ Returned(p, "WithTransaction") /\ ret[p].panic
          /\ Returned(q, "HealthCheck")
          /\ ErrorsIs(ret[q].err, ErrDBConnectionLost)

====
